---------------------------- MODULE Spec2Model ----------------------------
(***************************************************************************)
(* A model of libpgit.py: the object store (object_hash, object_write,     *)
(* object_read), the structured-text codec of commits and tags             *)
(* (key_value_list_with_message_parse / _serialize), the tree codec, the   *)
(* reference store (ref_resolve, ref_create) and name resolution           *)
(* (object_resolve, object_find).                                          *)
(*                                                                         *)
(* Representation.  A Python bytes value and a Python str are both a       *)
(* sequence of code points (naturals); str.encode()/bytes.decode("ascii")  *)
(* of ASCII text keep the code points.  Positions are Python's, counted    *)
(* from 0: At(raw, i) is raw[i], Slice(raw, i, j) is raw[i:j], Find is     *)
(* bytes.find.  A raised exception is a result with ok = FALSE and the     *)
(* exception's name in err.  A function of the source whose local          *)
(* variables are assigned one after the other is a chain of operators,     *)
(* each taking the values assigned so far as parameters.                   *)
(***************************************************************************)
EXTENDS Integers, Sequences, FiniteSets, TLC

VARIABLES
    objects,    \* .git/objects: ObjectId (the shard directory's 2 characters
                \* followed by the file's 38) -> the bytes of the file
    refs,       \* .git/HEAD and .git/refs/**: path -> the text of the file
    ret         \* the last call: its operation, its arguments and what it returned

vars == <<objects, refs, ret>>

-----------------------------------------------------------------------------
(* Bytes *)

SP == 32    \* b' '
NL == 10    \* b'\n'
NUL == 0    \* b'\x00'

Min(S) == CHOOSE x \in S : \A y \in S : x <= y

\* raw[i]
At(raw, i) == raw[i + 1]

\* A slice bound k of a sequence of length n: a negative one counts from the
\* end, and it is clamped to 0..n
Norm(k, n) ==
    IF k < 0 THEN (IF k + n < 0 THEN 0 ELSE k + n) ELSE (IF k > n THEN n ELSE k)

FirstOf(idx) == IF idx = {} THEN -1 ELSE Min(idx)

\* raw.find(c, start) for a single byte c
Find(raw, c, start) ==
    FirstOf({i \in Norm(start, Len(raw))..(Len(raw) - 1) : raw[i + 1] = c})

SliceNorm(raw, a, b) == IF a >= b THEN <<>> ELSE SubSeq(raw, a + 1, b)

\* raw[i:j]
Slice(raw, i, j) == SliceNorm(raw, Norm(i, Len(raw)), Norm(j, Len(raw)))

\* raw[i:]
SliceFrom(raw, i) == Slice(raw, i, Len(raw))

\* v.replace(old, new), old not empty: left to right, matches do not overlap
RECURSIVE Replace(_, _, _)
Replace(v, old, new) ==
    IF Len(v) < Len(old) THEN v
    ELSE IF SubSeq(v, 1, Len(old)) = old
         THEN new \o Replace(SubSeq(v, Len(old) + 1, Len(v)), old, new)
         ELSE <<Head(v)>> \o Replace(Tail(v), old, new)

\* s.startswith(p)
StartsWith(s, p) == Len(s) >= Len(p) /\ SubSeq(s, 1, Len(p)) = p

-----------------------------------------------------------------------------
(* collections.OrderedDict: a sequence of entries [k, v] in insertion      *)
(* order, no key twice.  A value is bytes, a Python list of bytes or a     *)
(* Python set of bytes.                                                    *)

Bytes(b) == [t |-> "bytes", b |-> b]
PyList(l) == [t |-> "list", l |-> l]
PySet(s) == [t |-> "set", s |-> s]

DictHas(dct, key) == \E i \in 1..Len(dct) : dct[i].k = key

DictGet(dct, key) == dct[CHOOSE i \in 1..Len(dct) : dct[i].k = key].v

\* dct[key] = val: an existing key keeps its place
DictSet(dct, key, val) ==
    IF DictHas(dct, key)
    THEN [i \in 1..Len(dct) |-> IF dct[i].k = key THEN [k |-> key, v |-> val] ELSE dct[i]]
    ELSE Append(dct, [k |-> key, v |-> val])

DictKeys(dct) == [i \in 1..Len(dct) |-> dct[i].k]

-----------------------------------------------------------------------------
(* key_value_list_with_message_parse *)

KvOk(dct) == [ok |-> TRUE, dct |-> dct, err |-> ""]
KvErr(e) == [ok |-> FALSE, dct |-> <<>>, err |-> e]

\* What ValueEnd gives when the loop does not reach `break`
IndexError == -2
NoReturn == -3

\* The loop of lines 387-391 from `end`: the position of the newline that ends
\* the value (-1 when find found none), IndexError when raw[end + 1] is read
\* past the end of raw, and NoReturn when the loop comes back to a position it
\* has left (find gave -1, raw[0] is a space, and the search starts over): it
\* then never ends.
RECURSIVE ValueEnd(_, _, _)
RECURSIVE ValueEndAt(_, _, _)
ValueEnd(raw, end, seen) == ValueEndAt(raw, Find(raw, NL, end + 1), seen)

ValueEndAt(raw, e, seen) ==
    IF e + 1 >= Len(raw) THEN IndexError
    ELSE IF At(raw, e + 1) # SP THEN e
    ELSE IF e \in seen THEN NoReturn
    ELSE ValueEnd(raw, e, seen \cup {e})

\* Lines 399-402, key in dct: a list is appended to; anything else is replaced
\* by the Python set {dct[key], value}, which raises TypeError when dct[key]
\* is itself a set (a set is unhashable).
KvRepeat(dct, key, value, old) ==
    IF old.t = "list" THEN KvOk(DictSet(dct, key, PyList(Append(old.l, value))))
    ELSE IF old.t = "bytes" THEN KvOk(DictSet(dct, key, PySet({old.b, value})))
    ELSE KvErr("TypeError")

\* Lines 397-404
KvStore(dct, key, value) ==
    IF DictHas(dct, key) THEN KvRepeat(dct, key, value, DictGet(dct, key))
    ELSE KvOk(DictSet(dct, key, Bytes(value)))

\* key_value_list_with_message_parse(raw, start, dct): `if not dct: dct =
\* OrderedDict()` gives the empty dictionary that the first call is made with
\* here.  ParseLine is the body from line 376 on, ParseValue from line 393 on,
\* ParseNext the call of line 406.
RECURSIVE key_value_list_with_message_parse(_, _, _)
RECURSIVE ParseLine(_, _, _, _, _)
RECURSIVE ParseValue(_, _, _, _, _)
RECURSIVE ParseNext(_, _, _)
key_value_list_with_message_parse(raw, start, dct) ==
    ParseLine(raw, start, dct, Find(raw, SP, start), Find(raw, NL, start))

ParseLine(raw, start, dct, spc, nl) ==
    IF spc = -1 \/ nl < spc
    THEN IF nl # start THEN KvErr("AssertionError")
         ELSE KvOk(DictSet(dct, <<>>, Bytes(SliceFrom(raw, start + 1))))
    ELSE ParseValue(raw, dct, Slice(raw, start, spc), spc, ValueEnd(raw, start, {}))

ParseValue(raw, dct, key, spc, end) ==
    IF end = IndexError THEN KvErr("IndexError")
    ELSE IF end = NoReturn THEN KvErr("NoReturn")
    ELSE ParseNext(raw, end,
                   KvStore(dct, key, Replace(Slice(raw, spc + 1, end), <<NL, SP>>, <<NL>>)))

ParseNext(raw, end, st) ==
    IF ~st.ok THEN st ELSE key_value_list_with_message_parse(raw, end + 1, st.dct)

-----------------------------------------------------------------------------
(* key_value_list_with_message_serialize *)

SerOk(data) == [ok |-> TRUE, data |-> data, err |-> ""]
SerErr(e) == [ok |-> FALSE, data |-> <<>>, err |-> e]

\* Line 423, one value of key k: k + b'' + v.replace(b'\n', b'\n ') + b'\n'
KvLine(k, v) == k \o <<>> \o Replace(v, <<NL>>, <<NL, SP>>) \o <<NL>>

RECURSIVE KvLines(_, _)
KvLines(k, vals) ==
    IF vals = <<>> THEN <<>> ELSE KvLine(k, Head(vals)) \o KvLines(k, Tail(vals))

\* Lines 415-423, one key: the message key is skipped; a set is not a list, so
\* it is wrapped, [val], and val.replace raises AttributeError.  `rest` is what
\* the keys after this one add.
KvField(k, val, rest) ==
    IF k = <<>> THEN rest
    ELSE IF val.t = "set" THEN SerErr("AttributeError")
    ELSE IF ~rest.ok THEN rest
    ELSE SerOk(KvLines(k, IF val.t = "list" THEN val.l ELSE <<val.b>>) \o rest.data)

\* Lines 413-423 from entry i on
RECURSIVE KvFields(_, _)
KvFields(dct, i) ==
    IF i > Len(dct) THEN SerOk(<<>>)
    ELSE KvField(dct[i].k, dct[i].v, KvFields(dct, i + 1))

\* Line 426: ret += b'\n' + key_value_list_with_message[b'']
KvMessage(dct, fields) ==
    IF ~fields.ok THEN fields
    ELSE IF ~DictHas(dct, <<>>) THEN SerErr("KeyError")
    ELSE IF DictGet(dct, <<>>).t # "bytes" THEN SerErr("TypeError")
    ELSE SerOk(fields.data \o <<NL>> \o DictGet(dct, <<>>).b)

key_value_list_with_message_serialize(dct) == KvMessage(dct, KvFields(dct, 1))

-----------------------------------------------------------------------------
(* Text and numbers *)

b_blob == <<98, 108, 111, 98>>              \* b'blob'
b_tree == <<116, 114, 101, 101>>            \* b'tree'
b_commit == <<99, 111, 109, 109, 105, 116>> \* b'commit'
b_tag == <<116, 97, 103>>                   \* b'tag'
k_object == <<111, 98, 106, 101, 99, 116>>  \* b'object'
k_tree == <<116, 114, 101, 101>>            \* b'tree'

Kinds == {b_blob, b_tree, b_commit, b_tag}

IsDigit(c) == c \in 48..57
IsHex(c) == c \in 48..57 \/ c \in 97..102 \/ c \in 65..70
HexValue(c) == IF c \in 48..57 THEN c - 48 ELSE IF c \in 97..102 THEN c - 87 ELSE c - 55
HexDigit(n) == IF n < 10 THEN 48 + n ELSE 87 + n

\* str.lower() of ASCII text
Lower(s) == [i \in 1..Len(s) |-> IF s[i] \in 65..90 THEN s[i] + 32 ELSE s[i]]

\* str(n) for n >= 0
RECURSIVE Str(_)
Str(n) == IF n < 10 THEN <<48 + n>> ELSE Str(n \div 10) \o <<48 + (n % 10)>>

\* The value of a string of decimal digits
RECURSIVE DigitsValue(_)
DigitsValue(s) ==
    IF s = <<>> THEN 0 ELSE 10 * DigitsValue(SubSeq(s, 1, Len(s) - 1)) + (s[Len(s)] - 48)

\* s.strip() of spaces (the other white space does not occur in a header)
RECURSIVE Strip(_)
Strip(s) ==
    IF s = <<>> THEN s
    ELSE IF Head(s) = SP THEN Strip(Tail(s))
    ELSE IF s[Len(s)] = SP THEN Strip(SubSeq(s, 1, Len(s) - 1))
    ELSE s

ValueError == -1

DigitsOrError(d) ==
    IF d # <<>> /\ \A i \in 1..Len(d) : IsDigit(d[i]) THEN DigitsValue(d) ELSE ValueError

\* int(s.decode("ascii")): white space around the digits is skipped; ValueError
\* for anything that is not a string of digits
PyInt(s) == DigitsOrError(Strip(s))

-----------------------------------------------------------------------------
(* Digest, framing, compression *)

ShaBytes == 20      \* a SHA-1 digest is 20 bytes
ShaHexLen == 40     \* and 40 hexadecimal characters

\* The sum of the bytes of b at the positions j, j + ShaBytes, ...
RECURSIVE SlotSum(_, _)
SlotSum(b, j) == IF j > Len(b) THEN 0 ELSE b[j] + SlotSum(b, j + ShaBytes)

\* Character i of the digest whose byte there is `byte`
DigestChar(i, byte) == HexDigit(IF i % 2 = 1 THEN byte \div 16 ELSE byte % 16)

\* hashlib.sha1(result).hexdigest().  SHA-1 itself is not computed: what the
\* program relies on is that the digest is a function of the framed bytes,
\* ShaHexLen lower-case hexadecimal characters long, different for the
\* different bytes it meets.  Here byte slot k of the digest is the sum, modulo
\* 256, of the framed bytes at positions k, k + 20, ..., written as two
\* hexadecimal characters; the objects of this model have different digests.
Digest(result) ==
    [i \in 1..ShaHexLen |-> DigestChar(i, SlotSum(result, (i + 1) \div 2) % 256)]

\* Line 283: obj.fmt + b' ' + str(len(data)).encode() + b'\x00' + data
Frame(fmt, data) == fmt \o <<SP>> \o Str(Len(data)) \o <<NUL>> \o data

\* zlib.compress / zlib.decompress: the deflate stream is not computed.  The
\* compressed bytes are the 2-byte zlib header and the data; decompress gives
\* the data back and raises zlib.error without the header.
ZlibHeader == <<120, 156>>
Compress(data) == ZlibHeader \o data
Decompress(z) ==
    IF StartsWith(z, ZlibHeader) THEN [ok |-> TRUE, data |-> SliceFrom(z, 2), err |-> ""]
    ELSE [ok |-> FALSE, data |-> <<>>, err |-> "zlib.error"]

-----------------------------------------------------------------------------
(* Trees *)

GitTreeLeaf(mode, path, sha) == [mode |-> mode, path |-> path, sha |-> sha]

\* The hexadecimal characters of the bytes b, two a byte
RECURSIVE HexOfBytes(_)
HexOfBytes(b) ==
    IF b = <<>> THEN <<>>
    ELSE <<HexDigit(Head(b) \div 16), HexDigit(Head(b) % 16)>> \o HexOfBytes(Tail(b))

RECURSIVE StripZeros(_)
StripZeros(h) == IF h # <<>> /\ Head(h) = 48 THEN StripZeros(Tail(h)) ELSE h

ZeroIfEmpty(h) == IF h = <<>> THEN <<48>> ELSE h

\* hex(int.from_bytes(b, 'big'))[2:]: the number's hexadecimal digits, which
\* are those of the bytes without the leading zeros ('0' for the number 0)
HexOfInt(b) == ZeroIfEmpty(StripZeros(HexOfBytes(b)))

RECURSIVE BytesOfHex(_)
BytesOfHex(h) ==
    IF h = <<>> THEN <<>>
    ELSE <<16 * HexValue(h[1]) + HexValue(h[2])>> \o BytesOfHex(SubSeq(h, 3, Len(h)))

\* n.to_bytes(20, byteorder="big") of the number whose hexadecimal digits are h:
\* OverflowError when it does not fit 20 bytes
ToBytesOf(h) ==
    IF Len(h) > 2 * ShaBytes THEN SerErr("OverflowError")
    ELSE SerOk(BytesOfHex([i \in 1..(2 * ShaBytes - Len(h)) |-> 48] \o h))

\* int(sha, 16).to_bytes(20, byteorder="big"): ValueError when sha is not a
\* hexadecimal number
ToBytes20(sha) ==
    IF sha = <<>> \/ \E i \in 1..Len(sha) : ~IsHex(sha[i]) THEN SerErr("ValueError")
    ELSE ToBytesOf(StripZeros(sha))

\* Lines 459-468, x and y found
TreeLeafTo(raw, start, x, y) ==
    [ok |-> TRUE, err |-> "", next |-> y + 21,
     leaf |-> GitTreeLeaf(Slice(raw, start, x), Slice(raw, x + 1, y),
                          HexOfInt(Slice(raw, y + 1, y + 21)))]

\* Lines 454-468, x found
TreeLeafAt(raw, start, x) ==
    IF ~(x - start = 5 \/ x - start = 6)
    THEN [ok |-> FALSE, next |-> 0, leaf |-> <<>>, err |-> "AssertionError"]
    ELSE TreeLeafTo(raw, start, x, Find(raw, NUL, x))

\* tree_parse_one(raw, start): [ok, next, leaf, err]
tree_parse_one(raw, start) == TreeLeafAt(raw, start, Find(raw, SP, start))

\* tree_parse(raw) from `start` with the leaves read so far.  When no NUL
\* follows, y is -1 and the next start is 20: a start the loop has been at
\* means that it never ends.
RECURSIVE TreeParseFrom(_, _, _, _)
RECURSIVE TreeParseNext(_, _, _, _, _)
TreeParseFrom(raw, start, items, seen) ==
    IF ~(start < Len(raw)) THEN [ok |-> TRUE, items |-> items, err |-> ""]
    ELSE IF start \in seen THEN [ok |-> FALSE, items |-> <<>>, err |-> "NoReturn"]
    ELSE TreeParseNext(raw, start, items, seen, tree_parse_one(raw, start))

TreeParseNext(raw, start, items, seen, one) ==
    IF ~one.ok THEN [ok |-> FALSE, items |-> <<>>, err |-> one.err]
    ELSE TreeParseFrom(raw, one.next, Append(items, one.leaf), seen \cup {start})

tree_parse(raw) == TreeParseFrom(raw, 0, <<>>, {})

\* Lines 484-486, one leaf: sha is the leaf's sha as 20 bytes, `rest` what the
\* leaves after this one add
TreeLeafBytes(leaf, sha, rest) ==
    IF ~sha.ok THEN sha
    ELSE IF ~rest.ok THEN rest
    ELSE SerOk(leaf.mode \o <<SP>> \o leaf.path \o <<NUL>> \o sha.data \o rest.data)

RECURSIVE TreeSerializeFrom(_, _)
TreeSerializeFrom(items, i) ==
    IF i > Len(items) THEN SerOk(<<>>)
    ELSE TreeLeafBytes(items[i], ToBytes20(items[i].sha), TreeSerializeFrom(items, i + 1))

tree_serialize(obj) == TreeSerializeFrom(obj.items, 1)

-----------------------------------------------------------------------------
(* Objects in memory: GitBlob, GitTree, GitCommit, GitTag *)

GitBlob(data) == [fmt |-> b_blob, blobdata |-> data]
GitTree(items) == [fmt |-> b_tree, items |-> items]
GitCommit(dct) == [fmt |-> b_commit, key_value_list_with_message |-> dct]
GitTag(dct) == [fmt |-> b_tag, key_value_list_with_message |-> dct]

ObjOk(obj) == [ok |-> TRUE, obj |-> obj, err |-> ""]
ObjErr(e) == [ok |-> FALSE, obj |-> <<>>, err |-> e]

\* GitTree.deserialize
TreeObj(t) == IF t.ok THEN ObjOk(GitTree(t.items)) ELSE ObjErr(t.err)

\* GitCommit.deserialize, which GitTag inherits
KvObj(fmt, kv) ==
    IF ~kv.ok THEN ObjErr(kv.err)
    ELSE ObjOk(IF fmt = b_commit THEN GitCommit(kv.dct) ELSE GitTag(kv.dct))

\* c(repo, data), the constructor of the class of fmt: GitObject.__init__ calls
\* deserialize(data)
Deserialize(fmt, data) ==
    IF fmt = b_blob THEN ObjOk(GitBlob(data))
    ELSE IF fmt = b_tree THEN TreeObj(tree_parse(data))
    ELSE KvObj(fmt, key_value_list_with_message_parse(data, 0, <<>>))

\* obj.serialize()
Serialize(obj) ==
    IF obj.fmt = b_blob THEN SerOk(obj.blobdata)
    ELSE IF obj.fmt = b_tree THEN tree_serialize(obj)
    ELSE key_value_list_with_message_serialize(obj.key_value_list_with_message)

-----------------------------------------------------------------------------
(* The object store *)

\* os.path.isdir of .git/objects/<prefix>: object_write makes the directory
\* with the first file in it, and nothing removes a file
ShardExists(objs, prefix) == \E id \in DOMAIN objs : Slice(id, 0, 2) = prefix

\* os.listdir of .git/objects/<prefix>
ShardFiles(objs, prefix) ==
    {SliceFrom(id, 2) : id \in {i \in DOMAIN objs : Slice(i, 0, 2) = prefix}}

\* Lines 226-242, fmt and size read
ReadBody(raw, fmt, y, size) ==
    IF size = ValueError THEN ObjErr("ValueError")
    ELSE IF size # Len(raw) - y - 1 THEN ObjErr("Exception: Malformed object")
    ELSE IF fmt \notin Kinds THEN ObjErr("Exception: Unknown type")
    ELSE Deserialize(fmt, SliceFrom(raw, y + 1))

\* Lines 221-242, x and y found
ReadHeader(raw, x, y) == ReadBody(raw, Slice(raw, 0, x), y, PyInt(Slice(raw, x, y)))

\* Lines 217-242, the file read
ReadRaw(z) ==
    IF ~z.ok THEN ObjErr(z.err)
    ELSE ReadHeader(z.data, Find(z.data, SP, 0), Find(z.data, NUL, Find(z.data, SP, 0)))

\* object_read(repo, sha).  repo_file gives None when the shard directory is
\* missing, and open(None) raises TypeError.
object_read(objs, sha) ==
    IF ~ShardExists(objs, Slice(sha, 0, 2)) THEN ObjErr("TypeError")
    ELSE IF sha \notin DOMAIN objs THEN ObjErr("FileNotFoundError")
    ELSE ReadRaw(Decompress(objs[sha]))

\* Lines 286-294 with the file opened to append ("ab"): what is written is
\* added to the file that is there
WriteFileAppend(objs, result, sha, actually_write) ==
    [ok |-> TRUE, sha |-> sha, err |-> "",
     objects |-> IF actually_write
                 THEN [id \in DOMAIN objs \cup {sha} |->
                           IF id # sha THEN objs[id]
                           ELSE IF sha \in DOMAIN objs THEN objs[sha] \o Compress(result)
                           ELSE Compress(result)]
                 ELSE objs]

\* Lines 286-294: open(path, "wb") makes or replaces the file
WriteFile(objs, result, sha, actually_write) ==
    [ok |-> TRUE, sha |-> sha, err |-> "",
     objects |-> IF actually_write
                 THEN [id \in DOMAIN objs \cup {sha} |->
                           IF id = sha THEN Compress(result) ELSE objs[id]]
                 ELSE objs]

\* Lines 284-294, `result` built
WriteResult(objs, result, actually_write) ==
    WriteFile(objs, result, Digest(result), actually_write)

\* Lines 283-294, `data` serialized
WriteData(objs, fmt, data, actually_write) ==
    IF ~data.ok THEN [ok |-> FALSE, sha |-> <<>>, objects |-> objs, err |-> data.err]
    ELSE WriteResult(objs, Frame(fmt, data.data), actually_write)

\* object_write(obj, actually_write): [ok, sha, objects, err], objects being the
\* store after the call
object_write(objs, obj, actually_write) ==
    WriteData(objs, obj.fmt, Serialize(obj), actually_write)

\* Line 355, the object built: what object_write gives, with the object
HashWritten(obj, w) ==
    [ok |-> w.ok, obj |-> obj, sha |-> w.sha, objects |-> w.objects, err |-> w.err]

HashBuilt(objs, o, repo) ==
    IF ~o.ok THEN [ok |-> FALSE, obj |-> <<>>, sha |-> <<>>, objects |-> objs, err |-> o.err]
    ELSE HashWritten(o.obj, object_write(objs, o.obj, repo))

\* object_hash(fd, fmt, repo): the object is built from the file's bytes and
\* written when there is a repo (hash-object -w)
object_hash(objs, data, fmt, repo) ==
    HashBuilt(objs,
              IF fmt \in Kinds THEN Deserialize(fmt, data) ELSE ObjErr("Exception: Unknown type"),
              repo)

-----------------------------------------------------------------------------
(* The reference store *)

t_HEAD == <<72, 69, 65, 68>>            \* 'HEAD'
t_ref == <<114, 101, 102, 58, 32>>      \* 'ref: '
t_refs == <<114, 101, 102, 115, 47>>    \* 'refs/'
d_heads == <<114, 101, 102, 115, 47, 104, 101, 97, 100, 115>>   \* 'refs/heads'
d_tags == <<114, 101, 102, 115, 47, 116, 97, 103, 115>>         \* 'refs/tags'
Slash == 47                             \* '/'

\* The interpreter's limit on the depth of calls (sys.getrecursionlimit(), 1000
\* unless changed), scaled down: a call deeper than it raises RecursionError.
RecursionLimit == 4

RefOk(sha) == [ok |-> TRUE, sha |-> sha, err |-> ""]
RefErr(e) == [ok |-> FALSE, sha |-> <<>>, err |-> e]

\* os.path.dirname(path)
RECURSIVE DirName(_)
DirName(path) ==
    IF path = <<>> THEN <<>>
    ELSE IF path[Len(path)] = Slash THEN SubSeq(path, 1, Len(path) - 1)
    ELSE DirName(SubSeq(path, 1, Len(path) - 1))

\* The directories under .git that reference files live in: .git itself ('')
\* and the ones repo_create makes, then the directories of the files there are
RefDirs(rfs) == {<<>>, DirName(d_heads), d_heads, d_tags} \cup {DirName(p) : p \in DOMAIN rfs}

\* ref_resolve(repo, ref), called at depth `depth` of the call stack;
\* RefFollow is lines 557-560, `data` read
RECURSIVE RefResolveAt(_, _, _)
RECURSIVE RefFollow(_, _, _)
RefResolveAt(rfs, ref, depth) ==
    IF depth > RecursionLimit THEN RefErr("RecursionError")
    ELSE IF ref \in RefDirs(rfs) THEN RefErr("IsADirectoryError")
    ELSE IF ref \notin DOMAIN rfs THEN RefErr("FileNotFoundError")
    ELSE RefFollow(rfs, Slice(rfs[ref], 0, -1), depth)

RefFollow(rfs, data, depth) ==
    IF StartsWith(data, t_ref) THEN RefResolveAt(rfs, SliceFrom(data, 5), depth + 1)
    ELSE RefOk(data)

ref_resolve(rfs, ref) == RefResolveAt(rfs, ref, 1)

\* Lines 640-641 with f.write(sha) in place of f.write(sha + '\n')
RefWriteBare(rfs, path, sha) ==
    IF DirName(path) \notin RefDirs(rfs)
    THEN [ok |-> FALSE, refs |-> rfs, err |-> "FileNotFoundError"]
    ELSE IF path \in RefDirs(rfs)
    THEN [ok |-> FALSE, refs |-> rfs, err |-> "IsADirectoryError"]
    ELSE [ok |-> TRUE, err |-> "",
          refs |-> [q \in DOMAIN rfs \cup {path} |-> IF q = path THEN sha ELSE rfs[q]]]

\* Lines 640-641, the path built: open(path, 'w') makes or replaces the file
\* and makes no directory
RefWrite(rfs, path, sha) ==
    IF DirName(path) \notin RefDirs(rfs)
    THEN [ok |-> FALSE, refs |-> rfs, err |-> "FileNotFoundError"]
    ELSE IF path \in RefDirs(rfs)
    THEN [ok |-> FALSE, refs |-> rfs, err |-> "IsADirectoryError"]
    ELSE [ok |-> TRUE, err |-> "",
          refs |-> [q \in DOMAIN rfs \cup {path} |-> IF q = path THEN sha \o <<NL>> ELSE rfs[q]]]

\* ref_create(repo, ref_name, sha): [ok, refs, err], refs being the files after
\* the call
ref_create(rfs, ref_name, sha) == RefWrite(rfs, t_refs \o ref_name, sha)

-----------------------------------------------------------------------------
(* Name resolution *)

HashMinLen == 4     \* hash_re: {4,40}
HashMaxLen == 40

\* hash_re.match(name): ^[0-9a-fA-F]{4,40}$
HashRe(name) ==
    /\ Len(name) >= HashMinLen
    /\ Len(name) <= HashMaxLen
    /\ \A i \in 1..Len(name) : IsHex(name[i])

\* not name.strip()
IsBlank(name) == \A i \in 1..Len(name) : name[i] \in {9, 10, 11, 12, 13, SP}

\* What object_resolve returns: None, or a list of candidates.  The order of a
\* list is that of os.listdir, which is not specified; the candidates are
\* kept as a set.
ResNone == [ok |-> TRUE, none |-> TRUE, cands |-> {}, err |-> ""]
ResList(c) == [ok |-> TRUE, none |-> FALSE, cands |-> c, err |-> ""]
ResErr(e) == [ok |-> FALSE, none |-> FALSE, cands |-> {}, err |-> e]

\* Line 663: [ref_resolve(repo, "HEAD")]
ResolveHead(h) == IF h.ok THEN ResList({h.sha}) ELSE ResErr(h.err)

\* Lines 674-681: the files of the shard directory that start with `remain`
ResolveShort(objs, prefix, remain) ==
    IF ShardExists(objs, prefix)
    THEN ResList({prefix \o f : f \in {g \in ShardFiles(objs, prefix) : StartsWith(g, remain)}})
    ELSE ResList({})

object_resolve(objs, rfs, name) ==
    IF IsBlank(name) THEN ResNone
    ELSE IF name = t_HEAD THEN ResolveHead(ref_resolve(rfs, t_HEAD))
    ELSE IF HashRe(name) /\ Len(name) = HashMaxLen THEN ResList({Lower(name)})
    ELSE ResolveShort(objs, Slice(Lower(name), 0, 2), SliceFrom(Lower(name), 2))

\* What object_find returns: a sha, None, or an exception (with the candidates
\* its message lists)
FindSha(sha) == [ok |-> TRUE, none |-> FALSE, sha |-> sha, err |-> "", cands |-> {}]
FindNone == [ok |-> TRUE, none |-> TRUE, sha |-> <<>>, err |-> "", cands |-> {}]
FindErr(e, c) == [ok |-> FALSE, none |-> FALSE, sha |-> <<>>, err |-> e, cands |-> c]

\* val.decode("ascii") of a value of the dictionary
DecodeValue(val) ==
    IF val.t # "bytes" THEN RefErr("AttributeError")
    ELSE IF \E i \in 1..Len(val.b) : val.b[i] > 127 THEN RefErr("UnicodeDecodeError")
    ELSE RefOk(val.b)

\* obj.key_value_list_with_message[key].decode("ascii")
KvDecode(obj, key) ==
    IF ~DictHas(obj.key_value_list_with_message, key) THEN RefErr("KeyError")
    ELSE DecodeValue(DictGet(obj.key_value_list_with_message, key))

\* The loop of lines 262-277 from `sha`: FindStep is the body with the object
\* read, FindNext the next turn with the sha to go to.  A sha the loop has
\* read before (a tag that leads back to itself) means that it never ends.
RECURSIVE FindLoop(_, _, _, _, _)
RECURSIVE FindStep(_, _, _, _, _, _)
RECURSIVE FindNext(_, _, _, _, _)
FindLoop(objs, sha, fmt, follow, seen) ==
    IF sha \in seen THEN FindErr("NoReturn", {})
    ELSE FindStep(objs, sha, fmt, follow, seen \cup {sha}, object_read(objs, sha))

FindStep(objs, sha, fmt, follow, seen, r) ==
    IF ~r.ok THEN FindErr(r.err, {})
    ELSE IF r.obj.fmt = fmt THEN FindSha(sha)
    ELSE IF r.obj.fmt # b_tag THEN FindNone
    ELSE IF ~follow THEN FindSha(sha)
    ELSE IF r.obj.fmt = b_tag THEN FindNext(objs, KvDecode(r.obj, k_object), fmt, follow, seen)
    ELSE IF r.obj.fmt = b_commit /\ fmt = b_tree
         THEN FindNext(objs, KvDecode(r.obj, k_tree), fmt, follow, seen)
    ELSE FindNone

FindNext(objs, next, fmt, follow, seen) ==
    IF ~next.ok THEN FindErr(next.err, {})
    ELSE FindLoop(objs, next.sha, fmt, follow, seen)

\* sha[0] of a list of one
Only(cands) == CHOOSE c \in cands : TRUE

\* Lines 252-277 without the test of line 255: the first candidate is taken
FindResolvedFirst(objs, res, fmt, follow) ==
    IF ~res.ok THEN FindErr(res.err, {})
    ELSE IF res.none \/ res.cands = {} THEN FindErr("Exception: No such reference", {})
    ELSE IF fmt = <<>> THEN FindSha(Only(res.cands))
    ELSE FindLoop(objs, Only(res.cands), fmt, follow, {})

\* Lines 252-277, the name resolved.  The message of the exception for several
\* candidates lists them all.
FindResolved(objs, res, fmt, follow) ==
    IF ~res.ok THEN FindErr(res.err, {})
    ELSE IF res.none \/ res.cands = {} THEN FindErr("Exception: No such reference", {})
    ELSE IF Cardinality(res.cands) > 1 THEN FindErr("Exception: Ambiguous reference", res.cands)
    ELSE IF fmt = <<>> THEN FindSha(Only(res.cands))
    ELSE FindLoop(objs, Only(res.cands), fmt, follow, {})

\* object_find(repo, name, fmt, follow); fmt = <<>> is fmt=None
object_find(objs, rfs, name, fmt, follow) ==
    FindResolved(objs, object_resolve(objs, rfs, name), fmt, follow)

-----------------------------------------------------------------------------
(* Repositories and inputs *)

IdOf(fmt, data) == Digest(Frame(fmt, data))

\* The file of an object as git writes it
Stored(e) == Compress(Frame(e[1], e[2]))

StoreOf(entries) ==
    [id \in {IdOf(e[1], e[2]) : e \in entries} |->
        Stored(CHOOSE e \in entries : IdOf(e[1], e[2]) = id)]

BlobA == <<97>>     \* b'a'
BlobB == <<98>>     \* b'b'
IdBlobA == IdOf(b_blob, BlobA)
IdBlobB == IdOf(b_blob, BlobB)
\* b'100644 a\x00' and the 20 bytes of blob a's digest
TreeData == <<49, 48, 48, 54, 52, 52, SP, 97, NUL>> \o BytesOfHex(IdBlobA)
IdTree == IdOf(b_tree, TreeData)
\* b'tree <the tree>\n\nm'
CommitData == k_tree \o <<SP>> \o IdTree \o <<NL, NL, 109>>
IdCommit == IdOf(b_commit, CommitData)
\* b'object <the commit>\ntype commit\n\nm'
TagData == k_object \o <<SP>> \o IdCommit
           \o <<NL, 116, 121, 112, 101, SP, 99, 111, 109, 109, 105, 116, NL, NL, 109>>
IdTag == IdOf(b_tag, TagData)
\* b'object <the tag>\ntype tag\n\nm': a tag of a tag
Tag2Data == k_object \o <<SP>> \o IdTag \o <<NL, 116, 121, 112, 101, SP, 116, 97, 103, NL, NL, 109>>
IdTag2 == IdOf(b_tag, Tag2Data)
\* b'100644 z\x00' and a digest whose first byte is 0 and whose second is 1
TreeZeroData == <<49, 48, 48, 54, 52, 52, SP, 122, NUL>> \o <<0, 1>> \o [i \in 1..(ShaBytes - 2) |-> 171]

\* After repo_create: no object
EmptyStore == [id \in {} |-> <<>>]
\* A repository that git has written: two blobs, a tree, a commit of the tree,
\* a tag of the commit and a tag of that tag
GitStore ==
    StoreOf({<<b_blob, BlobA>>, <<b_blob, BlobB>>, <<b_tree, TreeData>>,
             <<b_commit, CommitData>>, <<b_tag, TagData>>, <<b_tag, Tag2Data>>})

p_master == d_heads \o <<Slash, 109, 97, 115, 116, 101, 114>>   \* 'refs/heads/master'
p_dev == d_heads \o <<Slash, 100, 101, 118>>                    \* 'refs/heads/dev'
p_v1 == d_tags \o <<Slash, 118, 49>>                            \* 'refs/tags/v1'
n_master == SliceFrom(p_master, 5)                              \* 'heads/master'
n_dev == SliceFrom(p_dev, 5)                                    \* 'heads/dev'
n_v1 == SliceFrom(p_v1, 5)                                      \* 'tags/v1'
n_remote == <<114, 101, 109, 111, 116, 101, 115, 47, 111, 47, 120>>     \* 'remotes/o/x'

Symbolic(path) == t_ref \o path \o <<NL>>
Direct(sha) == sha \o <<NL>>

\* After repo_create: HEAD is 'ref: refs/heads/master\n' and no branch exists
FreshRefs == [q \in {t_HEAD} |-> Symbolic(p_master)]
\* A repository with a commit on master and a tag
GitRefs ==
    [q \in {t_HEAD, p_master, p_v1} |->
        IF q = t_HEAD THEN Symbolic(p_master)
        ELSE IF q = p_master THEN Direct(IdCommit) ELSE Direct(IdTag2)]
\* HEAD is on dev, dev is a symbolic reference to master
ChainRefs ==
    [q \in {t_HEAD, p_dev, p_master} |->
        IF q = t_HEAD THEN Symbolic(p_dev)
        ELSE IF q = p_dev THEN Symbolic(p_master) ELSE Direct(IdCommit)]
\* A malformed repository: dev and master are symbolic references to each other
CycleRefs ==
    [q \in {t_HEAD, p_dev, p_master} |->
        IF q = t_HEAD THEN Symbolic(p_dev)
        ELSE IF q = p_dev THEN Symbolic(p_master) ELSE Symbolic(p_dev)]

\* s.upper() of ASCII text
Upper(s) == [i \in 1..Len(s) |-> IF s[i] \in 97..122 THEN s[i] - 32 ELSE s[i]]

AllF == [i \in 1..ShaHexLen |-> 102]    \* 'ffff...f', 40 characters: no object

\* hash-object: the type and the bytes of the file
HashInputs ==
    {<<b_blob, BlobA>>, <<b_tree, TreeZeroData>>, <<b_commit, CommitData>>, <<b_commit, <<120>>>>}

\* The names given to object_resolve
ResolveNames ==
    {t_HEAD, <<SP>>, <<109, 97, 115, 116, 101, 114>>, AllF, Slice(AllF, 0, 4)}
    \cup {Slice(IdBlobA, 0, n) : n \in {1, 2, 3, 4, 15, 16, 39, 40}}
    \cup {Upper(Slice(IdBlobA, 0, 16)), Upper(IdBlobA), Slice(IdTree, 0, 2), Slice(IdTree, 0, 3)}

\* The names given to object_find
FindNames ==
    {t_HEAD, <<SP>>, AllF, Slice(AllF, 0, 4), IdBlobA, Slice(IdBlobA, 0, 4),
     IdTree, IdCommit, IdTag2}

\* The payload of CommitData's commit as this program serializes it
CommitWritten == Serialize(Deserialize(b_commit, CommitData).obj).data

ReadShas ==
    {IdBlobA, IdTree, IdCommit, IdTag, AllF, Slice(IdBlobA, 0, 4),
     IdOf(b_commit, CommitWritten), IdOf(b_tree, TreeZeroData)}

RefNames == {n_master, n_dev, n_v1, n_remote}
RefShas == {IdCommit, IdTag2, IdBlobA}
RefPaths == {t_HEAD, p_master, p_dev, p_v1, d_heads}

-----------------------------------------------------------------------------
(* The object store and name resolution *)

Init ==
    /\ \/ objects = EmptyStore /\ refs = FreshRefs
       \/ objects = GitStore /\ refs = GitRefs
    /\ ret = [op |-> "none"]

\* The record of a call of object_hash that gave r; `existed` tells that the
\* file written was there before
HashRet(fmt, data, write, r) ==
    [op |-> "object_hash", fmt |-> fmt, data |-> data, write |-> write,
     existed |-> write /\ r.ok /\ r.sha \in DOMAIN objects,
     ok |-> r.ok, obj |-> r.obj, sha |-> r.sha, err |-> r.err]

\* cmd_hash_object: hash-object [-w] -t fmt file
HashObject(fmt, data, write) ==
    /\ objects' = object_hash(objects, data, fmt, write).objects
    /\ ret' = HashRet(fmt, data, write, object_hash(objects, data, fmt, write))
    /\ UNCHANGED refs

ReadObject(sha) ==
    /\ ret' = [op |-> "object_read", sha |-> sha, res |-> object_read(objects, sha)]
    /\ UNCHANGED <<objects, refs>>

ResolveName(name) ==
    /\ ret' = [op |-> "object_resolve", name |-> name, res |-> object_resolve(objects, refs, name)]
    /\ UNCHANGED <<objects, refs>>

FindObject(name, fmt, follow) ==
    /\ ret' = [op |-> "object_find", name |-> name, fmt |-> fmt, follow |-> follow,
               res |-> object_find(objects, refs, name, fmt, follow)]
    /\ UNCHANGED <<objects, refs>>

Next ==
    \/ \E in \in HashInputs, write \in BOOLEAN : HashObject(in[1], in[2], write)
    \/ \E sha \in ReadShas : ReadObject(sha)
    \/ \E name \in ResolveNames : ResolveName(name)
    \/ \E name \in FindNames, fmt \in Kinds \cup {<<>>}, follow \in BOOLEAN :
           FindObject(name, fmt, follow)

Spec == Init /\ [][Next]_vars

-----------------------------------------------------------------------------
(* The reference store *)

InitRefs ==
    /\ objects = GitStore
    /\ refs \in {FreshRefs, GitRefs, ChainRefs, CycleRefs}
    /\ ret = [op |-> "none"]

RefResolve(ref) ==
    /\ ret' = [op |-> "ref_resolve", ref |-> ref, res |-> ref_resolve(refs, ref)]
    /\ UNCHANGED <<objects, refs>>

RefCreate(ref_name, sha) ==
    /\ refs' = ref_create(refs, ref_name, sha).refs
    /\ ret' = [op |-> "ref_create", ref_name |-> ref_name, sha |-> sha,
               ok |-> ref_create(refs, ref_name, sha).ok,
               err |-> ref_create(refs, ref_name, sha).err]
    /\ UNCHANGED objects

NextRefs ==
    \/ \E ref \in RefPaths : RefResolve(ref)
    \/ \E ref_name \in RefNames, sha \in RefShas : RefCreate(ref_name, sha)

SpecRefs == InitRefs /\ [][NextRefs]_vars

-----------------------------------------------------------------------------
(* The structured text of commits and tags *)

\* The most fields of a payload
MaxFields == 3

KvlmKeys == {<<97>>, <<98>>}                                    \* b'a', b'b'
KvlmValues == {<<49>>, <<49, NL, 50>>, <<120, SP, 121>>}        \* b'1', b'1\n2', b'x y'
KvlmMessages == {<<>>, <<109>>, <<109, SP, 110, NL>>}           \* b'', b'm', b'm n\n'

KvlmFields == UNION {[1..n -> KvlmKeys \X KvlmValues] : n \in 0..MaxFields}

\* A field as git writes it: the key, a space, the value with a space after
\* each of its newlines, a newline
KvlmFieldText(f) == f[1] \o <<SP>> \o Replace(f[2], <<NL>>, <<NL, SP>>) \o <<NL>>

RECURSIVE KvlmFieldsText(_)
KvlmFieldsText(fields) ==
    IF fields = <<>> THEN <<>> ELSE KvlmFieldText(Head(fields)) \o KvlmFieldsText(Tail(fields))

\* A payload as git writes it: the fields, an empty line, the message
KvlmText(fields, msg) == KvlmFieldsText(fields) \o <<NL>> \o msg

InitKvlm ==
    /\ objects = EmptyStore
    /\ refs = FreshRefs
    /\ \E fields \in KvlmFields, msg \in KvlmMessages :
           ret = [op |-> "raw", fields |-> fields, msg |-> msg, raw |-> KvlmText(fields, msg)]

\* GitCommit.deserialize(data)
CommitDeserialize ==
    /\ ret.op = "raw"
    /\ ret' = [op |-> "deserialize", fields |-> ret.fields, msg |-> ret.msg, raw |-> ret.raw,
               res |-> key_value_list_with_message_parse(ret.raw, 0, <<>>)]
    /\ UNCHANGED <<objects, refs>>

\* GitCommit.serialize() of the object deserialized
CommitSerialize ==
    /\ ret.op = "deserialize"
    /\ ret.res.ok
    /\ ret' = [op |-> "serialize", fields |-> ret.fields, msg |-> ret.msg, raw |-> ret.raw,
               dct |-> ret.res.dct,
               res |-> key_value_list_with_message_serialize(ret.res.dct)]
    /\ UNCHANGED <<objects, refs>>

NextKvlm == CommitDeserialize \/ CommitSerialize

SpecKvlm == InitKvlm /\ [][NextKvlm]_vars

-----------------------------------------------------------------------------
(* The payload of trees *)

\* The most entries of a payload
MaxEntries == 2

TreeModes == {<<49, 48, 48, 54, 52, 52>>, <<52, 48, 48, 48, 48>>}   \* b'100644', b'40000'
TreePaths == {<<97>>, <<122>>}                                      \* b'a', b'z'

\* Digests of 20 bytes: one whose first byte is 0, one whose first byte is
\* less than 16, one without a leading zero, and the one of 20 zero bytes
TreeDigests ==
    {<<0, 1>> \o [i \in 1..(ShaBytes - 2) |-> 171],
     <<10>> \o [i \in 1..(ShaBytes - 1) |-> 171],
     [i \in 1..ShaBytes |-> 171],
     [i \in 1..ShaBytes |-> 0]}

TreeEntries == UNION {[1..n -> TreeModes \X TreePaths \X TreeDigests] : n \in 0..MaxEntries}

\* An entry as git writes it: the mode, a space, the path, a NUL, the 20 bytes
\* of the digest
TreeEntryText(e) == e[1] \o <<SP>> \o e[2] \o <<NUL>> \o e[3]

RECURSIVE TreeText(_)
TreeText(entries) ==
    IF entries = <<>> THEN <<>> ELSE TreeEntryText(Head(entries)) \o TreeText(Tail(entries))

InitTree ==
    /\ objects = EmptyStore
    /\ refs = FreshRefs
    /\ \E entries \in TreeEntries :
           ret = [op |-> "tree_raw", entries |-> entries, raw |-> TreeText(entries)]

\* GitTree.deserialize(data)
TreeDeserialize ==
    /\ ret.op = "tree_raw"
    /\ ret' = [op |-> "tree_parse", entries |-> ret.entries, raw |-> ret.raw,
               res |-> tree_parse(ret.raw)]
    /\ UNCHANGED <<objects, refs>>

\* GitTree.serialize() of the object deserialized
TreeSerialize ==
    /\ ret.op = "tree_parse"
    /\ ret.res.ok
    /\ ret' = [op |-> "tree_serialize", entries |-> ret.entries, raw |-> ret.raw,
               items |-> ret.res.items,
               res |-> tree_serialize(GitTree(ret.res.items))]
    /\ UNCHANGED <<objects, refs>>

NextTree == TreeDeserialize \/ TreeSerialize

SpecTree == InitTree /\ [][NextTree]_vars

-----------------------------------------------------------------------------
(* Properties of the object store *)

SameObject(r, obj) == r.ok /\ r.obj.fmt = obj.fmt /\ r.obj = obj

\* C1: write-then-read round trip.  After an object o of any kind has been
\* written (hash-object -w) and the write has returned an id, the id is the
\* digest of the frame of o's kind and serialization, and reading that id
\* succeeds and gives an object of the same kind with the same payload.
C1_WriteThenRead ==
    (ret.op = "object_hash" /\ ret.write /\ ret.ok) =>
        /\ ret.sha = Digest(Frame(ret.fmt, Serialize(ret.obj).data))
        /\ SameObject(object_read(objects, ret.sha), ret.obj)

SameWrite(again) == again.ok /\ again.sha = ret.sha /\ again.objects = objects

\* C2: idempotent write.  In every state reached by writing an object, writing
\* the same object a second time returns the id the first write returned and
\* gives the store that the first write left: the same ids with the same bytes.
C2_IdempotentWrite ==
    (ret.op = "object_hash" /\ ret.write /\ ret.ok) =>
        SameWrite(object_write(objects, ret.obj, TRUE))

\* An object has been written whose file was already in the store
C2_WrittenTwice == ret.op = "object_hash" /\ ret.write /\ ret.ok /\ ret.existed

-----------------------------------------------------------------------------
(* Properties of name resolution *)

IsKind(objs, sha, fmt) == object_read(objs, sha).ok /\ object_read(objs, sha).obj.fmt = fmt

\* The tree behind sha: sha is a tag that leads, through at most `hops` tags,
\* to a commit whose tree field names a tree.  <<>> when there is none.
RECURSIVE TreeBehind(_, _, _)
RECURSIVE TreeBehindRead(_, _, _)
TreeBehind(objs, sha, hops) == TreeBehindRead(objs, object_read(objs, sha), hops)

TreeBehindRead(objs, r, hops) ==
    IF ~r.ok THEN <<>>
    ELSE IF r.obj.fmt = b_tag /\ hops > 0 /\ KvDecode(r.obj, k_object).ok
         THEN TreeBehind(objs, KvDecode(r.obj, k_object).sha, hops - 1)
    ELSE IF /\ r.obj.fmt = b_commit
            /\ KvDecode(r.obj, k_tree).ok
            /\ IsKind(objs, KvDecode(r.obj, k_tree).sha, b_tree)
         THEN KvDecode(r.obj, k_tree).sha
    ELSE <<>>

TagToTree(res, found) ==
    (/\ res.ok
     /\ Cardinality(res.cands) = 1
     /\ \A c \in res.cands :
            IsKind(objects, c, b_tag) /\ TreeBehind(objects, c, Cardinality(DOMAIN objects)) # <<>>)
    => /\ found.ok
       /\ ~found.none
       /\ \A c \in res.cands : found.sha = TreeBehind(objects, c, Cardinality(DOMAIN objects))

\* C4: tag and commit dereference.  When the name resolves to a single tag
\* that leads, through tags, to a commit whose tree field names a tree,
\* object_find with fmt = tree (and follow) returns the id of that tree.
C4_TagToTree ==
    (ret.op = "object_find" /\ ret.fmt = b_tree /\ ret.follow) =>
        TagToTree(object_resolve(objects, refs, ret.name), ret.res)

\* No rule dereferences an object of this kind when fmt is required
NoRuleApplies(kind, fmt) ==
    kind # fmt /\ kind # b_tag /\ ~(kind = b_commit /\ fmt = b_tree)

\* C5: a kind that cannot be satisfied is an error.  When object_find is given
\* a required kind and the id of a stored object whose kind differs from it
\* and that no rule dereferences (a blob or a tree, or a commit when the
\* required kind is not tree), it fails with TypeMismatch: it returns neither
\* an id nor an empty value.
C5_TypeMismatch ==
    (/\ ret.op = "object_find"
     /\ ret.fmt # <<>>
     /\ ret.name \in DOMAIN objects
     /\ object_read(objects, ret.name).ok
     /\ NoRuleApplies(object_read(objects, ret.name).obj.fmt, ret.fmt))
    => (~ret.res.ok /\ ret.res.err = "TypeMismatch")

IsHexName(name) == name # <<>> /\ \A i \in 1..Len(name) : IsHex(name[i])

StoredWithPrefix(objs, p) == {id \in DOMAIN objs : StartsWith(id, p)}

\* C6: short-hash resolution.  object_resolve of a hexadecimal name of 4 to 39
\* characters returns exactly the stored ids that start with the lower-cased
\* name; of 40 characters, the (lower-cased) name alone, stored or not; and a
\* hexadecimal name of fewer than 4 characters is no short hash: it has no
\* candidate.
C6_ShortHash ==
    (ret.op = "object_resolve" /\ IsHexName(ret.name)) =>
        /\ ret.res.ok
        /\ ~ret.res.none
        /\ (Len(ret.name) \in HashMinLen..(HashMaxLen - 1) =>
                ret.res.cands = StoredWithPrefix(objects, Lower(ret.name)))
        /\ (Len(ret.name) = HashMaxLen => ret.res.cands = {Lower(ret.name)})
        /\ (Len(ret.name) < HashMinLen => ret.res.cands = {})

Triaged(res, fmt, found) ==
    /\ (res.ok /\ (res.none \/ res.cands = {})) =>
           (~found.ok /\ found.err = "Exception: No such reference")
    /\ (res.ok /\ Cardinality(res.cands) > 1) =>
           (~found.ok /\ found.err = "Exception: Ambiguous reference" /\ found.cands = res.cands)
    /\ (res.ok /\ Cardinality(res.cands) = 1 /\ fmt = <<>>) =>
           (found.ok /\ ~found.none /\ found.sha \in res.cands)

C7_Triaged ==
    ret.op = "object_find" => Triaged(object_resolve(objects, refs, ret.name), ret.fmt, ret.res)

\* C7: the triage of candidates.  object_find fails with "No such reference"
\* when object_resolve gives no candidate, fails with "Ambiguous reference"
\* and all the candidates when it gives several, and with one candidate and no
\* required kind returns that candidate, stored or not; and a call of
\* object_find changes neither the objects nor the references.
C7_FindTriage ==
    /\ []C7_Triaged
    /\ [][ret'.op = "object_find" => UNCHANGED <<objects, refs>>]_vars

\* object_find has failed on a name with several candidates
C7_Ambiguous ==
    ret.op = "object_find" /\ ~ret.res.ok /\ Cardinality(ret.res.cands) > 1

-----------------------------------------------------------------------------
(* Properties of the reference store *)

\* The path a symbolic reference file names
TargetOf(text) == Slice(SliceFrom(text, 5), 0, -1)

\* The chain of 'ref: ' targets from ref leads back to a reference of the chain
RECURSIVE OnCycle(_, _, _)
OnCycle(rfs, ref, seen) ==
    IF ref \in seen THEN TRUE
    ELSE IF ref \notin DOMAIN rfs THEN FALSE
    ELSE IF ~StartsWith(rfs[ref], t_ref) THEN FALSE
    ELSE OnCycle(rfs, TargetOf(rfs[ref]), seen \cup {ref})

\* C8: resolution of a reference ends.  ref_resolve returns an id or fails,
\* and on a reference whose chain of 'ref: ' targets leads back to itself it
\* fails with FormatError.
C8_CycleFormatError ==
    (ret.op = "ref_resolve" /\ OnCycle(refs, ret.ref, {})) =>
        (~ret.res.ok /\ ret.res.err = "FormatError")

\* The chain of 'ref: ' targets from ref ends at path after at most `hops`
RECURSIVE ChainEndsAt(_, _, _, _)
ChainEndsAt(rfs, ref, path, hops) ==
    \/ ref = path
    \/ /\ hops > 0
       /\ ref \in DOMAIN rfs
       /\ StartsWith(rfs[ref], t_ref)
       /\ ChainEndsAt(rfs, TargetOf(rfs[ref]), path, hops - 1)

C9_Created ==
    (ret.op = "ref_create" /\ ret.ok) =>
        \A ref \in DOMAIN refs :
            ChainEndsAt(refs, ref, t_refs \o ret.ref_name, RecursionLimit - 1) =>
                ref_resolve(refs, ref) = RefOk(ret.sha)

C9_Others ==
    /\ objects' = objects
    /\ DOMAIN refs \subseteq DOMAIN refs'
    /\ \A p \in DOMAIN refs' :
           (p \notin DOMAIN refs \/ refs'[p] # refs[p]) =>
               (ret'.op = "ref_create" /\ ret'.ok /\ p = t_refs \o ret'.ref_name)

-----------------------------------------------------------------------------
(* Properties of the structured text *)

\* C3: the round trip of the structured text.  For a payload as git writes it
\* (key, space, value with its newlines followed by a space; an empty line;
\* the message), serializing what parsing gave succeeds and gives the payload
\* back, byte for byte.
C3_KvlmRoundTrip ==
    ret.op = "serialize" => (ret.res.ok /\ ret.res.data = ret.raw)

\* The values of `key` in the fields, in their order
RECURSIVE ValuesOf(_, _)
ValuesOf(fields, key) ==
    IF fields = <<>> THEN <<>>
    ELSE (IF Head(fields)[1] = key THEN <<Head(fields)[2]>> ELSE <<>>) \o ValuesOf(Tail(fields), key)

\* The keys of the fields in the order of their first appearance
RECURSIVE FirstKeys(_, _)
FirstKeys(fields, seen) ==
    IF fields = <<>> THEN <<>>
    ELSE IF Head(fields)[1] \in seen THEN FirstKeys(Tail(fields), seen)
    ELSE <<Head(fields)[1]>> \o FirstKeys(Tail(fields), seen \cup {Head(fields)[1]})

IsListOf(val, vals) == val.t = "list" /\ val.l = vals

\* C10: repeated keys.  When a key occurs twice or more in the payload,
\* parsing succeeds and stores under the key the list of all its values in
\* their order; and the keys are kept in the order of their first appearance
\* (the message, under the empty key, last).
C10_RepeatedKeys ==
    ret.op = "deserialize" =>
        /\ \A key \in KvlmKeys :
               Len(ValuesOf(ret.fields, key)) >= 2 =>
                   (ret.res.ok /\ IsListOf(DictGet(ret.res.dct, key), ValuesOf(ret.fields, key)))
        /\ ret.res.ok => DictKeys(ret.res.dct) = FirstKeys(ret.fields, {}) \o << <<>> >>

-----------------------------------------------------------------------------
(* Properties of the payload of trees *)

\* The sha of each item is the digest of its entry as 40 hexadecimal
\* characters, two a byte
ShaOfDigests(items, entries) ==
    /\ Len(items) = Len(entries)
    /\ \A i \in 1..Len(items) :
           Len(items[i].sha) = ShaHexLen /\ items[i].sha = HexOfBytes(entries[i][3])

\* C11: the rendering of the digest of a tree entry.  Parsing a tree payload
\* succeeds and gives, for each entry, a sha of exactly 40 lower-case
\* hexadecimal characters that write the entry's 20 digest bytes, leading zeros
\* included (its first 2 characters and its other 38 are the shard path of the
\* target); and serializing what parsing gave gives the payload back.
C11_TreeDigest ==
    /\ ret.op = "tree_parse" => (ret.res.ok /\ ShaOfDigests(ret.res.items, ret.entries))
    /\ ret.op = "tree_serialize" => (ret.res.ok /\ ret.res.data = ret.raw)

\* The round trip alone: serializing what parsing gave gives the payload back
C11_TreeRoundTrip ==
    ret.op = "tree_serialize" => (ret.res.ok /\ ret.res.data = ret.raw)

=============================================================================
